---- MODULE Spec2Model ----
(***************************************************************************)
(* The worker pool of src/src/v3/worker.rs: a Pool that owns the sending   *)
(* end of one unbounded crossbeam channel and a Vec of Workers, each a     *)
(* thread looping on the shared receiving end.                             *)
(*                                                                         *)
(* Parts of the crate that worker.rs uses but that are not in the source   *)
(* tree are modelled from the specification and marked so where defined:   *)
(* the binding tables' get_mut (bindings.rs), the Message::Job variant and *)
(* its dispatch arm (exec sends it, the enum and the match do not have     *)
(* it), and the key and mouse submission entry points.                     *)
(***************************************************************************)
EXTENDS Naturals, Sequences, FiniteSets

\* ------------------------------------------------------------------ bounds
\* Largest pool size the host asks for (0 is asked for too).
MaxSize == 2
\* Number of submissions the host makes over the pool's life.
MaxSubmit == 2
\* Number of submissions attempted once teardown has begun (SpecLate only).
MaxLate == 1

\* ------------------------------------------------------------------ data
\* KeyBindings: the key codes the host may send, and those that have an action.
KeyCodes == {"k1", "k2", "k3"}
BoundKeys == {"k1", "k2"}
\* MouseBindings: events are looked up by (kind, state).
MouseStates == {"s0", "s1"}
BoundMouse == {<<"Press", "s0">>}
\* What an action returns: Ok(()) or Err(e), e being the error that action fails with.
Errors == {"boom", "bang"}
ErrOf(e) == IF e[1] = "Key" /\ e[2] = "k1" THEN "boom" ELSE "bang"
Outcomes(e) == {"ok", ErrOf(e)}

\* enum Message; id is the submission number of a work message (0: a sentinel).
KeyMsg(k, n) == [kind |-> "Key", code |-> k, ekind |-> "-", estate |-> "-", id |-> n]
MouseMsg(ek, es, n) == [kind |-> "Mouse", code |-> "-", ekind |-> ek, estate |-> es, id |-> n]
JobMsg(n) == [kind |-> "Job", code |-> "-", ekind |-> "-", estate |-> "-", id |-> n]
ShutDown == [kind |-> "ShutDown", code |-> "-", ekind |-> "-", estate |-> "-", id |-> 0]
NoMsg == [kind |-> "None", code |-> "-", ekind |-> "-", estate |-> "-", id |-> 0]

VARIABLES
  poolState,  \* where the host is: none, constructing, open, sending, joining, done, panic_*
  size,       \* the size Pool::new was called with
  workers,    \* Pool.workers: the Vec<Worker>, each [id |-> n]
  pc,         \* per worker thread (by position in the Vec): recv, lookup, run, handler, job, exited
  cur,        \* per worker thread: the message it dequeued and is working on
  exitWhy,    \* per worker thread: "shutdown" or "closed" once exited
  queue,      \* the channel's contents, oldest first
  txOpen,     \* the Pool's Sender is alive
  sent,       \* ShutDown messages sent by drop
  joined,     \* workers joined by drop
  locked,     \* binding entries whose exclusive guard is held
  inside,     \* per binding entry: threads now inside the action body
  submitted,  \* accepted work messages, by submission number
  ran,        \* per submission: times its action or job was invoked
  result,     \* per submission: what its action returned ("none" before)
  errs,       \* per submission: the values error_handler was called with
  atDrop,     \* a job was still queued, not yet picked up, when drop was entered
  finished,   \* submissions whose processing has completed
  late        \* outcomes of submissions attempted once teardown had begun

vars == <<poolState, size, workers, pc, cur, exitWhy, queue, txOpen, sent, joined,
          locked, inside, submitted, ran, result, errs, atDrop, finished, late>>

ghost == <<ran, result, errs, atDrop, finished>>

Threads == 1..Len(workers)
Ids == 1..Len(submitted)

\* The binding entry a key or mouse message looks up.
Entry(m) == <<m.kind, m.code, m.ekind, m.estate>>
Entries == {<<"Key", k, "-", "-">> : k \in KeyCodes}
             \cup {<<"Mouse", "-", "Press", s>> : s \in MouseStates}

Init ==
  /\ poolState = "none"
  /\ size = 0
  /\ workers = <<>>
  /\ pc = <<>>
  /\ cur = <<>>
  /\ exitWhy = <<>>
  /\ queue = <<>>
  /\ txOpen = FALSE
  /\ sent = 0
  /\ joined = 0
  /\ locked = {}
  /\ inside = [e \in Entries |-> 0]
  /\ submitted = <<>>
  /\ ran = <<>>
  /\ result = <<>>
  /\ errs = <<>>
  /\ atDrop = FALSE
  /\ finished = {}
  /\ late = <<>>

\* ------------------------------------------------------------- Pool::new
\* assert!(size > 0, ..) and let (tx, rx) = unbounded()
PoolNewAssert ==
  /\ poolState = "none"
  /\ \E s \in 0..MaxSize :
       /\ size' = s
       /\ IF s > 0
            THEN poolState' = "constructing" /\ txOpen' = TRUE
            ELSE poolState' = "panic_new" /\ txOpen' = FALSE
  /\ UNCHANGED <<workers, pc, cur, exitWhy, queue, sent, joined, locked, inside,
                 submitted, ghost, late>>

\* A faulty NextId: identifiers counted from 1.
NextIdFromOne(n) == n + 1

\* The id the iterator (0..size) hands to the n-th Worker::new, n counted from 0.
NextId(n) == n

\* One turn of (0..size).map(|id| Worker::new(id, rx.clone(), ..)): the thread is
\* spawned and starts in its receive loop.
SpawnWorker ==
  /\ poolState = "constructing"
  /\ Len(workers) < size
  /\ workers' = Append(workers, [id |-> NextId(Len(workers))])
  /\ pc' = Append(pc, "recv")
  /\ cur' = Append(cur, NoMsg)
  /\ exitWhy' = Append(exitWhy, "")
  /\ UNCHANGED <<poolState, size, queue, txOpen, sent, joined, locked, inside,
                 submitted, ghost, late>>

\* .collect() is complete: Self { workers, tx }
PoolNewReturn ==
  /\ poolState = "constructing"
  /\ Len(workers) = size
  /\ poolState' = "open"
  /\ UNCHANGED <<size, workers, pc, cur, exitWhy, queue, txOpen, sent, joined,
                 locked, inside, submitted, ghost, late>>

\* ---------------------------------------------------------------- channel
\* The receiving ends that are still held: one per worker thread that has not ended.
Receivers == {w \in Threads : pc[w] # "exited"}

\* Sender::send on the channel returns Ok unless every receiver is gone.
SendOk == Receivers # {}

\* A faulty SendReady: a channel made with bounded(1), whose send waits for room.
SendReadyBounded == Len(queue) < 1

\* unbounded(): a send never waits for room in the queue.
SendReady == TRUE

\* A faulty Dequeued: the message is handed out and left in the queue.
DequeuedPeek(q) == q

\* What recv leaves in the queue after handing out its oldest message.
Dequeued(q) == Tail(q)

\* A faulty Enqueue: the newest message is handed out first.
EnqueueFront(q, m) == <<m>> \o q

\* Sender::send puts the message behind everything sent before it.
Enqueue(q, m) == Append(q, m)

\* A faulty RecvErr: recv keeps waiting on a channel no sender is left for.
RecvErrNever == FALSE

\* rx.recv() returns Err: every sender is gone and nothing is left to hand out.
RecvErr == queue = <<>> /\ ~txOpen

\* A work message is accepted: it is on the queue and has its bookkeeping.
Accept(m) ==
  /\ queue' = Enqueue(queue, m)
  /\ submitted' = Append(submitted, m)
  /\ ran' = Append(ran, 0)
  /\ result' = Append(result, "none")
  /\ errs' = Append(errs, <<>>)
  /\ UNCHANGED <<atDrop, finished>>

\* self.tx.send(m).unwrap()
SendUnwrap(m) ==
  IF SendOk
    THEN Accept(m) /\ UNCHANGED poolState
    ELSE poolState' = "panic_exec" /\ UNCHANGED <<queue, submitted, ghost>>

\* ------------------------------------------------------------ submission
\* Pool::exec: self.tx.send(Message::Job(Box::new(f))).unwrap()
exec ==
  /\ poolState = "open"
  /\ Len(submitted) < MaxSubmit
  /\ SendReady
  /\ SendUnwrap(JobMsg(Len(submitted) + 1))
  /\ UNCHANGED <<size, workers, pc, cur, exitWhy, txOpen, sent, joined, locked,
                 inside, late>>

\* submit_key(code): a Key message is sent the way exec sends a Job.
submit_key ==
  /\ poolState = "open"
  /\ Len(submitted) < MaxSubmit
  /\ SendReady
  /\ \E k \in KeyCodes : SendUnwrap(KeyMsg(k, Len(submitted) + 1))
  /\ UNCHANGED <<size, workers, pc, cur, exitWhy, txOpen, sent, joined, locked,
                 inside, late>>

\* submit_mouse(event): a Mouse message is sent the way exec sends a Job.
submit_mouse ==
  /\ poolState = "open"
  /\ Len(submitted) < MaxSubmit
  /\ SendReady
  /\ \E s \in MouseStates : SendUnwrap(MouseMsg("Press", s, Len(submitted) + 1))
  /\ UNCHANGED <<size, workers, pc, cur, exitWhy, txOpen, sent, joined, locked,
                 inside, late>>

\* ---------------------------------------------------------------- Worker
\* ks.get_mut(&k) / ms.get_mut(&(e.kind, e.state)) finds an action.
Bound(m) ==
  \/ m.kind = "Key" /\ m.code \in BoundKeys
  \/ m.kind = "Mouse" /\ <<m.ekind, m.estate>> \in BoundMouse

\* get_mut hands out the entry's guard only while no other guard of it is held.
GetMutReady(e) == e \notin locked

\* A faulty Held: the guard is dropped before the action is called.
HeldNot(lk, e) == lk

\* The guards held once the guard of e is bound to `action`, which lives to the
\* end of the if-let block: through the call and through error_handler.
Held(lk, e) == lk \cup {e}

\* A faulty AfterLookup: a missing binding is treated as a found one.
AfterLookupAlways(bound) == "run"

\* A faulty AfterLookup: the test of the lookup is inverted.
AfterLookupInverted(bound) == IF bound THEN "recv" ELSE "run"

\* if let Some(action) = ..get_mut(..): the action runs, or the arm is over.
AfterLookup(bound) == IF bound THEN "run" ELSE "recv"

\* A faulty AfterAction: an action's error ends the thread.
AfterActionDie(r) == IF r = "ok" THEN "recv" ELSE "exited"

\* A faulty AfterAction: the action's result is discarded.
AfterActionIgnore(r) == "recv"

\* if let Err(e) = action(..): error_handler(e) runs, or the arm is over.
AfterAction(r) == IF r = "ok" THEN "recv" ELSE "handler"

\* The value error_handler is called with, for an action that returned Err(e).
HandlerArg(e) == e

\* A faulty AfterShutDown: the arm falls through to the next turn of the loop.
AfterShutDownContinue == "recv"

\* Message::ShutDown => { trace!(..); return; }
AfterShutDown == "exited"

\* A faulty AtRecv: the loop receives again while its last message is in progress.
AtRecvAnytime(w) == pc[w] # "exited"

\* rx.recv() is called at the top of the loop only, once the last arm is over.
AtRecv(w) == pc[w] = "recv"

\* A faulty AfterJob: the callable's outcome is passed on to error_handler.
AfterJobHandler == "handler"

\* The Job arm is over when the callable returns, whatever it did.
AfterJob == "recv"

Set(f, i, v) == [f EXCEPT ![i] = v]

\* while let Ok(m) = rx.recv() { match m { .. } }: one message is taken, or the
\* channel is found disconnected and empty and the loop ends. ShutDown returns
\* from the thread; a Job's callable is invoked; a Key or Mouse message whose
\* lookup finds nothing is over at once.
WorkerRecv(w) ==
  /\ AtRecv(w)
  /\ queue # <<>> \/ RecvErr
  /\ IF queue = <<>>
       THEN /\ pc' = Set(pc, w, "exited")
            /\ exitWhy' = Set(exitWhy, w, "closed")
            /\ UNCHANGED <<queue, cur, ran, finished>>
       ELSE LET m == Head(queue) IN
            /\ queue' = Dequeued(queue)
            /\ CASE m.kind = "ShutDown" ->
                      /\ pc' = Set(pc, w, AfterShutDown)
                      /\ exitWhy' = Set(exitWhy, w, "shutdown")
                      /\ UNCHANGED <<cur, ran, finished>>
                 [] m.kind = "Job" ->
                      /\ pc' = Set(pc, w, "job")
                      /\ cur' = Set(cur, w, m)
                      /\ ran' = Set(ran, m.id, ran[m.id] + 1)
                      /\ UNCHANGED <<exitWhy, finished>>
                 [] OTHER ->
                      IF AfterLookup(Bound(m)) = "run"
                        THEN /\ pc' = Set(pc, w, "lookup")
                             /\ cur' = Set(cur, w, m)
                             /\ UNCHANGED <<exitWhy, ran, finished>>
                        ELSE /\ finished' = finished \cup {m.id}
                             /\ UNCHANGED <<pc, cur, exitWhy, ran>>
  /\ UNCHANGED <<poolState, size, workers, txOpen, sent, joined, locked, inside,
                 submitted, result, errs, atDrop, late>>

\* A bound Key or Mouse message: get_mut waits for the entry's guard, then
\* action(h.clone(), ..) is entered.
WorkerLookup(w) ==
  /\ pc[w] = "lookup"
  /\ LET m == cur[w]
         e == Entry(m)
     IN /\ GetMutReady(e)
        /\ locked' = Held(locked, e)
        /\ inside' = Set(inside, e, inside[e] + 1)
        /\ ran' = Set(ran, m.id, ran[m.id] + 1)
        /\ pc' = Set(pc, w, "run")
  /\ UNCHANGED <<poolState, size, workers, cur, exitWhy, queue, txOpen, sent, joined,
                 submitted, result, errs, atDrop, finished, late>>

\* The action returns Ok(()) or Err(e); the guard lives to the end of the arm.
WorkerAction(w) ==
  /\ pc[w] = "run"
  /\ LET m == cur[w]
         e == Entry(m)
     IN \E r \in Outcomes(e) :
          /\ result' = Set(result, m.id, r)
          /\ inside' = Set(inside, e, inside[e] - 1)
          /\ IF AfterAction(r) = "handler"
               THEN /\ pc' = Set(pc, w, "handler")
                    /\ UNCHANGED <<cur, locked, finished>>
               ELSE /\ pc' = Set(pc, w, AfterAction(r))
                    /\ cur' = Set(cur, w, NoMsg)
                    /\ locked' = locked \ {e}
                    /\ finished' = finished \cup {m.id}
  /\ UNCHANGED <<poolState, size, workers, exitWhy, queue, txOpen, sent, joined,
                 submitted, ran, errs, atDrop, late>>

\* error_handler(e), then the end of the arm: the guard is released.
WorkerHandler(w) ==
  /\ pc[w] = "handler"
  /\ LET m == cur[w] IN
       /\ errs' = Set(errs, m.id, Append(errs[m.id], HandlerArg(result[m.id])))
       /\ locked' = locked \ {Entry(m)}
       /\ finished' = finished \cup {m.id}
  /\ pc' = Set(pc, w, "recv")
  /\ cur' = Set(cur, w, NoMsg)
  /\ UNCHANGED <<poolState, size, workers, exitWhy, queue, txOpen, sent, joined,
                 inside, submitted, ran, result, atDrop, late>>

\* The Job arm: the callable returns; its outcome goes nowhere.
WorkerJob(w) ==
  /\ pc[w] = "job"
  /\ finished' = finished \cup {cur[w].id}
  /\ pc' = Set(pc, w, AfterJob)
  /\ cur' = IF AfterJob = "recv" THEN Set(cur, w, NoMsg) ELSE cur
  /\ UNCHANGED <<poolState, size, workers, exitWhy, queue, txOpen, sent, joined,
                 locked, inside, submitted, ran, result, errs, atDrop, late>>

\* ------------------------------------------------------- Drop for Pool
\* The Pool goes out of scope: drop(&mut self) is entered.
DropBegin ==
  /\ poolState = "open"
  /\ poolState' = "sending"
  /\ atDrop' = \E i \in 1..Len(queue) : queue[i].kind = "Job"
  /\ UNCHANGED <<size, workers, pc, cur, exitWhy, queue, txOpen, sent, joined,
                 locked, inside, submitted, ran, result, errs, finished, late>>

\* A faulty Sentinels: the loop sends one too many.
SentinelsExtra == Len(workers) + 1

\* A faulty Sentinels: the loop stops one short.
SentinelsShort == Len(workers) - 1

\* The number of ShutDown messages the first loop sends: one per worker.
Sentinels == Len(workers)

\* for _ in &self.workers { self.tx.send(Message::ShutDown).unwrap(); }
DropSend ==
  /\ poolState = "sending"
  /\ IF sent < Sentinels
       THEN IF SendOk
              THEN /\ queue' = Enqueue(queue, ShutDown)
                   /\ sent' = sent + 1
                   /\ UNCHANGED poolState
              ELSE /\ poolState' = "panic_drop"
                   /\ UNCHANGED <<queue, sent>>
       ELSE /\ poolState' = "joining"
            /\ UNCHANGED <<queue, sent>>
  /\ UNCHANGED <<size, workers, pc, cur, exitWhy, txOpen, joined, locked, inside,
                 submitted, ghost, late>>

\* A faulty JoinReady: the thread is not waited for.
JoinReadyNoWait(w) == TRUE

\* JoinHandle::join returns once the thread has ended.
JoinReady(w) == pc[w] = "exited"

\* A faulty TxHeld: the sender is released before the threads are joined.
TxHeldNot == FALSE

\* tx is a field of the Pool: it lives while drop(&mut self) runs.
TxHeld == TRUE

\* for w in self.workers.drain(0..) { w.handle.join().unwrap(); }, and after the
\* last one drop returns and the Pool's fields, tx among them, are released.
DropJoin ==
  /\ poolState = "joining"
  /\ IF joined < Len(workers)
       THEN /\ JoinReady(joined + 1)
            /\ joined' = joined + 1
            /\ txOpen' = TxHeld
            /\ UNCHANGED poolState
       ELSE /\ poolState' = "done"
            /\ txOpen' = FALSE
            /\ UNCHANGED joined
  /\ UNCHANGED <<size, workers, pc, cur, exitWhy, queue, sent, locked, inside,
                 submitted, ghost, late>>

\* exec called once drop has been entered: the same send and unwrap.
exec_late ==
  /\ poolState \in {"sending", "joining"}
  /\ Len(late) < MaxLate
  /\ SendReady
  /\ SendUnwrap(JobMsg(Len(submitted) + 1))
  /\ late' = Append(late, [id |-> Len(submitted) + 1, accepted |-> SendOk])
  /\ UNCHANGED <<size, workers, pc, cur, exitWhy, txOpen, sent, joined, locked, inside>>

\* thread::spawn panics (the OS cannot create the thread) part way through
\* Pool::new: the unwinding releases tx, rx and the Workers made so far, whose
\* threads run on detached.
SpawnPanics ==
  /\ poolState = "constructing"
  /\ Len(workers) < size
  /\ poolState' = "panic_spawn"
  /\ txOpen' = FALSE
  /\ UNCHANGED <<size, workers, pc, cur, exitWhy, queue, sent, joined, locked, inside,
                 submitted, ghost, late>>

\* One worker thread's next step.
Worker(w) ==
  /\ w \in Threads
  /\ \/ WorkerRecv(w)
     \/ WorkerLookup(w)
     \/ WorkerAction(w)
     \/ WorkerHandler(w)
     \/ WorkerJob(w)

Next ==
  \/ PoolNewAssert
  \/ SpawnWorker
  \/ PoolNewReturn
  \/ exec
  \/ submit_key
  \/ submit_mouse
  \/ \E w \in Threads : WorkerRecv(w)
  \/ \E w \in Threads : WorkerLookup(w)
  \/ \E w \in Threads : WorkerAction(w)
  \/ \E w \in Threads : WorkerHandler(w)
  \/ \E w \in Threads : WorkerJob(w)
  \/ DropBegin
  \/ DropSend
  \/ DropJoin

Spec == Init /\ [][Next]_vars

\* Every worker thread that can take a step is scheduled, every action and job
\* that was started returns, and the thread that runs drop keeps running.
FairSpec ==
  /\ Spec
  /\ WF_vars(DropSend)
  /\ WF_vars(DropJoin)
  /\ \A w \in 1..MaxSize : WF_vars(Worker(w))

\* The host also submits while drop is running.
NextLate == Next \/ exec_late

SpecLate == Init /\ [][NextLate]_vars

\* Pool::new may also fail at a spawn.
NextSpawnFail == Next \/ SpawnPanics

SpecSpawnFail == Init /\ [][NextSpawnFail]_vars

\* ------------------------------------------------------------------ claims
Busy(w) == pc[w] \in {"lookup", "run", "handler", "job"}
InQueue(id) == Cardinality({i \in 1..Len(queue) : queue[i].id = id})
InHand(id) == Cardinality({w \in Threads : cur[w].id = id})
Done(id) == IF id \in finished THEN 1 ELSE 0
IsKeyOrMouse(m) == m.kind \in {"Key", "Mouse"}

\* C1: once drop has been entered, it eventually returns with every worker
\* thread ended by a ShutDown message it consumed (given that threads are
\* scheduled and every action and job returns).
C1_TeardownCompletes ==
  (poolState = "sending")
    ~> (/\ poolState = "done"
        /\ joined = Len(workers)
        /\ \A w \in Threads : pc[w] = "exited" /\ exitWhy[w] = "shutdown")

\* C1's case: a teardown of two workers that had work to do has returned.
C1_Witness ==
  /\ poolState = "done"
  /\ Len(workers) = 2
  /\ finished # {}

\* C2: when the last join has returned, every accepted message has been
\* processed to the end, those still queued when drop was entered included.
C2_NoWorkDropped ==
  (poolState \in {"joining", "done"} /\ joined = Len(workers))
    => \A id \in Ids : /\ id \in finished
                       /\ Bound(submitted[id]) \/ submitted[id].kind = "Job" => ran[id] = 1

\* C2's case: drop was entered with a job still queued, and has returned.
C2_Witness ==
  /\ poolState = "done"
  /\ atDrop
  /\ \A id \in Ids : id \in finished

\* C3: every accepted message is, at any time, in exactly one place (the queue,
\* one worker's hands, or done), is never run twice, and a job that is done has
\* reported exactly once.
C3_ExactlyOnce ==
  \A id \in Ids :
    /\ InQueue(id) + InHand(id) + Done(id) = 1
    /\ ran[id] <= 1
    /\ (id \in finished /\ submitted[id].kind = "Job") => ran[id] = 1

\* C3's case: two workers took one job each off the shared queue.
C3_Witness ==
  /\ Len(workers) = 2
  /\ pc[1] = "job" /\ pc[2] = "job"
  /\ cur[1].id # cur[2].id
  /\ queue = <<>>

C5_ActionExclusive == \A e \in Entries : inside[e] <= 1

\* C5's case: one worker is inside an action while another, holding a message
\* for the same entry, waits for it.
C5_Witness ==
  \E v, w \in Threads :
    /\ pc[v] = "run" /\ pc[w] = "lookup"
    /\ Entry(cur[v]) = Entry(cur[w])
    /\ inside[Entry(cur[v])] = 1

\* C6: error_handler is called for a message exactly when its action returned
\* an error, once, with that error; the worker is then back in its receive loop,
\* and a worker leaves the loop only from its receive.
C6_HandlerInv ==
  /\ \A id \in Ids :
       /\ Len(errs[id]) <= 1
       /\ id \in finished =>
            errs[id] = (IF result[id] \in Errors THEN <<result[id]>> ELSE <<>>)
  /\ \A w \in Threads : pc[w] = "handler" => result[cur[w].id] \in Errors

C6_ErrorHandledOnce ==
  /\ []C6_HandlerInv
  /\ [][\A w \in Threads :
          /\ (pc[w] = "handler" /\ pc'[w] # "handler") => pc'[w] = "recv"
          /\ (pc[w] # "exited" /\ pc'[w] = "exited") => pc[w] = "recv"]_vars

\* C6's case: the only worker handled an action's error and then processed the
\* message submitted after it.
C6_Witness ==
  /\ Len(workers) = 1
  /\ Len(submitted) = 2
  /\ errs[1] = <<result[1]>>
  /\ 2 \in finished

\* C7: a pool that was constructed has exactly size workers, size >= 1, with
\* the identifiers 0..size-1 in order; a size of 0 panics with no worker spawned.
C7_PoolNew ==
  /\ poolState \in {"open", "sending", "joining", "done"} =>
       /\ size >= 1
       /\ Len(workers) = size
       /\ \A i \in 1..size : workers[i].id = i - 1
  /\ poolState = "panic_new" <=> (size = 0 /\ poolState # "none")
  /\ poolState = "panic_new" => workers = <<>>

\* C7's case: Pool::new(2, ..) has returned.
C7_Witness ==
  /\ poolState = "open"
  /\ size = 2

\* C8: a key or mouse message with no binding runs no action and calls no
\* error handler, and no worker is ever held up by one.
C8_UnboundNoOp ==
  /\ \A id \in Ids :
       (IsKeyOrMouse(submitted[id]) /\ ~Bound(submitted[id])) =>
         /\ ran[id] = 0
         /\ errs[id] = <<>>
         /\ result[id] = "none"
         /\ \A w \in Threads : cur[w].id # id
  /\ \A w \in Threads : pc[w] \in {"lookup", "run", "handler"} => Bound(cur[w])

\* C8's case: the only worker consumed an unbound key and an unbound mouse event,
\* the second after the first.
C8_Witness ==
  /\ Len(workers) = 1
  /\ Len(submitted) = 2
  /\ submitted[1].kind = "Key" /\ submitted[2].kind = "Mouse"
  /\ ~Bound(submitted[1]) /\ ~Bound(submitted[2])
  /\ finished = {1, 2}
  /\ pc[1] = "recv"

\* C9: while the pool is open (and the host has submissions left to make),
\* every submission entry point can be taken, whatever the queue holds and
\* whatever the workers are doing.
C9_SubmitNeverBlocks ==
  (poolState = "open" /\ Len(submitted) < MaxSubmit) =>
    /\ ENABLED exec
    /\ ENABLED submit_key
    /\ ENABLED submit_mouse

\* C9's case: every worker is busy with a message submitted earlier, and the
\* host can submit again.
C9_Witness ==
  /\ poolState = "open"
  /\ submitted # <<>>
  /\ Len(submitted) < MaxSubmit
  /\ \A w \in Threads : Busy(w)
  /\ ENABLED exec /\ ENABLED submit_key /\ ENABLED submit_mouse

\* C10: of two key messages bound to different actions, each one that is done
\* has run its action exactly once, whatever the order they were done in.
DifferentKeys(i, j) ==
  /\ i < j
  /\ submitted[i].kind = "Key" /\ submitted[j].kind = "Key"
  /\ Bound(submitted[i]) /\ Bound(submitted[j])
  /\ submitted[i].code # submitted[j].code

C10_BothOnce ==
  \A i, j \in Ids :
    (DifferentKeys(i, j) /\ i \in finished /\ j \in finished) =>
      ran[i] = 1 /\ ran[j] = 1

\* C10's case: the later key's action has run and returned on one worker while
\* the earlier key, taken first by another worker, is still inside its action.
C10_Witness ==
  \E i, j \in Ids : \E w \in Threads :
    /\ DifferentKeys(i, j)
    /\ j \in finished /\ ran[j] = 1
    /\ pc[w] = "run" /\ cur[w].id = i /\ ran[i] = 1

\* ---------------------------------------------------------- claims, teardown
TornDown == poolState \in {"sending", "joining", "done"}
SentinelsQueued == Cardinality({i \in 1..Len(queue) : queue[i].kind = "ShutDown"})
Exited == {w \in Threads : pc[w] = "exited"}
ByShutDown == {w \in Threads : exitWhy[w] = "shutdown"}

\* C11: drop sends one ShutDown per worker, never more, and all of them before
\* its first join; a worker that has exited consumed one, and no more were
\* consumed than threads exited.
C11_OneSentinelPerWorker ==
  /\ sent <= Len(workers)
  /\ (poolState \in {"joining", "done"} \/ joined > 0) => sent = Len(workers)
  /\ \A w \in Exited : exitWhy[w] = "shutdown"
  /\ Cardinality(ByShutDown) = Cardinality(Exited)
  /\ poolState = "done" => (Exited = Threads /\ SentinelsQueued = 0)

\* C11's case: both sentinels of a pool of two are sent, no join has been made
\* yet, and one worker has consumed its sentinel.
C11_Witness ==
  /\ poolState = "joining"
  /\ joined = 0
  /\ Len(workers) = 2 /\ sent = 2
  /\ Cardinality(Exited) = 1
  /\ SentinelsQueued = 1

\* C12: whenever a ShutDown leaves the queue one more thread has ended, and a
\* thread that has ended stays ended, holds no message and takes none.
C12_ShutDownIsFinal ==
  [][/\ SentinelsQueued' < SentinelsQueued =>
          Cardinality(Exited') = Cardinality(Exited) + 1
     /\ \A w \in Threads :
          pc[w] = "exited" =>
            /\ pc'[w] = "exited"
            /\ cur'[w] = NoMsg
            /\ exitWhy'[w] = exitWhy[w]]_vars

\* C12's case: a worker has ended on a ShutDown while another message is still
\* in the queue, which it leaves alone.
C12_Witness ==
  \E w \in Threads :
    /\ pc[w] = "exited" /\ exitWhy[w] = "shutdown"
    /\ queue # <<>>

\* C13: exec puts one Job message at the back of the queue; a job is invoked
\* once when it is dequeued, never reaches error_handler, and the worker that
\* ran it is back in its receive loop when it returns.
C13_JobInv ==
  \A id \in Ids :
    submitted[id].kind = "Job" =>
      /\ ran[id] = InHand(id) + Done(id)
      /\ errs[id] = <<>>
      /\ result[id] = "none"
      /\ \A w \in Threads : cur[w].id = id => pc[w] = "job"

C14_WorkersStayAlive ==
  /\ poolState = "open" => (Len(workers) = size /\ Exited = {})
  /\ Exited # {} => TornDown

\* C14's case: a pool of two is open and has processed an action that failed
\* and an event with no binding.
C14_Witness ==
  /\ poolState = "open"
  /\ size = 2
  /\ Exited = {}
  /\ finished = {1, 2}
  /\ \E i \in Ids : errs[i] # <<>>
  /\ \E i \in Ids : IsKeyOrMouse(submitted[i]) /\ ~Bound(submitted[i])

\* C15: a worker that is working on a message leaves it only by finishing it
\* and never ends with it in hand; it takes a ShutDown only from its receive.
C15_InProgressCompletes ==
  /\ [](\A w \in Threads : pc[w] = "exited" => cur[w] = NoMsg)
  /\ [][\A w \in Threads :
          Busy(w) =>
            /\ pc'[w] # "exited"
            /\ exitWhy'[w] = ""
            /\ cur'[w] = cur[w] \/ (cur[w].id \in finished' /\ pc'[w] = "recv")]_vars

\* C15's case: drop has sent its sentinel while the only worker is still inside
\* a job it had in hand when drop was entered; the sentinel waits.
C15_Witness ==
  /\ poolState = "joining"
  /\ Len(workers) = 1
  /\ Len(submitted) = 1
  /\ ~atDrop
  /\ pc[1] = "job" /\ cur[1].id = 1
  /\ queue = <<ShutDown>>

\* C16: a worker in its receive that finds the channel empty with no sender
\* left is not held there: its next step ends the thread, which is then as a
\* thread ended by ShutDown is: exited, no message in hand, the queue untouched.
C16_ClosedInv ==
  \A w \in Threads :
    /\ (pc[w] = "recv" /\ queue = <<>> /\ ~txOpen) => ENABLED WorkerRecv(w)
    /\ exitWhy[w] = "closed" => (pc[w] = "exited" /\ cur[w] = NoMsg)

C16_ClosedEndsLoop ==
  /\ []C16_ClosedInv
  /\ [][\A w \in Threads :
          (pc[w] = "recv" /\ queue = <<>> /\ ~txOpen /\ pc'[w] # pc[w]) =>
            /\ pc'[w] = "exited"
            /\ exitWhy'[w] = "closed"
            /\ queue' = queue]_vars

\* C16's case: Pool::new failed at its second spawn, and the worker spawned
\* first has found the channel closed and ended.
C16_Witness ==
  /\ poolState = "panic_spawn"
  /\ \E w \in Threads : pc[w] = "exited" /\ exitWhy[w] = "closed"

\* C17: in the queue every work message is ahead of every ShutDown, and none is
\* queued at all before drop is entered.
C17_SentinelsLast ==
  /\ \A i, j \in 1..Len(queue) :
       (i < j /\ queue[i].kind = "ShutDown") => queue[j].kind = "ShutDown"
  /\ ~TornDown => SentinelsQueued = 0

\* C17's case: a work message submitted before drop still waits in the queue
\* with a ShutDown behind it.
C17_Witness ==
  /\ Len(queue) >= 2
  /\ queue[1].kind # "ShutDown"
  /\ queue[Len(queue)].kind = "ShutDown"

\* C18: drop's send never fails: fewer workers have exited than there are
\* sentinels sent when another is due, so a receiver is left.
C18_SendNeverFails ==
  /\ poolState # "panic_drop"
  /\ Cardinality(Exited) <= sent
  /\ (poolState = "sending" /\ sent < Len(workers)) =>
       (SendOk /\ Cardinality(Exited) < Len(workers))

\* C18's case: of a pool of two, one worker has already consumed the first
\* sentinel and ended when the second is about to be sent.
C18_Witness ==
  /\ poolState = "sending"
  /\ Len(workers) = 2
  /\ sent = 1
  /\ Cardinality(Exited) = 1

\* C19: all through teardown the sentinels still queued and the workers that
\* have exited add up to the sentinels sent, and when the last join has
\* returned the queue is empty.
C19_QueueDrained ==
  /\ TornDown => SentinelsQueued + Cardinality(Exited) = sent
  /\ (TornDown /\ joined = Len(workers)) => queue = <<>>

\* C19's case: drop has returned for a pool of two that had two messages to
\* process.
C19_Witness ==
  /\ poolState = "done"
  /\ Len(workers) = 2
  /\ Len(submitted) = 2
  /\ queue = <<>>
  /\ sent = 2

\* C20: no worker ends on a closed channel: the sender is alive from Pool::new's
\* return to the last join, by when every worker has ended on a ShutDown.
C20_NoClosedExit ==
  /\ \A w \in Threads : exitWhy[w] # "closed"
  /\ poolState \in {"open", "sending", "joining"} => txOpen
  /\ ~txOpen => \A w \in Threads : pc[w] = "exited" /\ exitWhy[w] = "shutdown"

\* C20's case: drop has returned and released the sender, with both workers
\* ended by a ShutDown.
C20_Witness ==
  /\ poolState = "done"
  /\ ~txOpen
  /\ Len(workers) = 2
  /\ ByShutDown = Threads

====
